---- MODULE Spec2Model ----
(***************************************************************************)
(* Model of the institute content API (src/main.py, src/schemas.py).       *)
(*                                                                         *)
(* The process seeds five collections at import time (seed_demo_data) and  *)
(* then serves read-only list endpoints.  The `database` module that       *)
(* main.py imports (db, create_document, get_documents) is not part of     *)
(* src/; it is modelled from spec.md section 4.2.                          *)
(*                                                                         *)
(* Encoding.  An Optional[T] value is a sequence of length <= 1: None is  *)
(* <<>>, a present value v is <<v>>.  Strings that the code only compares  *)
(* for equality or truthiness are TLA+ strings; course_code, course_title  *)
(* and the search term, which the code lower-cases and searches, are       *)
(* sequences of one-character strings.  A stored document is a function    *)
(* from field names to values.                                             *)
(***************************************************************************)
EXTENDS Integers, Sequences, FiniteSets, TLC

VARIABLES envUrl, envName, store, nextId, phase, seedPc, seedRun, hist,
          req, resp, calls, validated

vars == <<envUrl, envName, store, nextId, phase, seedPc, seedRun, hist,
          req, resp, calls, validated>>

\* Number of process restarts (each restart runs seed_demo_data again).
MaxRestarts == 1

----------------------------------------------------------------------------
(* Optional values                                                          *)

None == <<>>

Some(v) == <<v>>

IsNone(o) == o = <<>>

Val(o) == o[1]

\* Python truthiness of an Optional[str] held as a TLA+ string.
TruthyStr(o) == ~IsNone(o) /\ Val(o) # ""

\* Python truthiness of an Optional[str] held as a character sequence.
TruthyChars(o) == ~IsNone(o) /\ Len(Val(o)) > 0

----------------------------------------------------------------------------
(* Character strings: str.lower() and the `in` substring test               *)

UpperChars == <<"A","B","C","D","E","F","G","H","I","J","K","L","M",
                "N","O","P","Q","R","S","T","U","V","W","X","Y","Z">>

LowerChars == <<"a","b","c","d","e","f","g","h","i","j","k","l","m",
                "n","o","p","q","r","s","t","u","v","w","x","y","z">>

LowerChar(ch) ==
    IF \E i \in 1..Len(UpperChars) : UpperChars[i] = ch
    THEN LowerChars[CHOOSE i \in 1..Len(UpperChars) : UpperChars[i] = ch]
    ELSE ch

Lower(s) == [i \in 1..Len(s) |-> LowerChar(s[i])]

\* Python `s in t` for strings.
Substring(s, t) ==
    \E i \in 0..(Len(t) - Len(s)) : SubSeq(t, i + 1, i + Len(s)) = s

----------------------------------------------------------------------------
(* Schema layer (src/schemas.py)                                            *)

Collections == <<"program", "faculty", "event", "admission", "pyq">>

CollectionSet == {Collections[i] : i \in 1..Len(Collections)}

StorageFields == {"_id", "created_at", "updated_at"}

DurationYearsMin == 1

DurationYearsMax == 6

SemestersMin == 1

SemestersMax == 12

PyqSemesterMin == 1

PyqSemesterMax == 12

\* The fields a schema requires (declared without a default).
RequiredFields(kind) ==
    CASE kind = "program"   -> {"name", "department", "level", "duration_years", "semesters"}
      [] kind = "faculty"   -> {"name", "designation", "department"}
      [] kind = "event"     -> {"title", "category", "start_date", "location"}
      [] kind = "admission" -> {"year", "program", "status"}
      [] kind = "pyq"       -> {"program", "department", "course_code", "course_title",
                                "semester", "year", "exam_type", "file_url"}

\* The fields declared Optional[...] = None.
OptionalFields(kind) ==
    CASE kind = "program"   -> {"description"}
      [] kind = "faculty"   -> {"email", "phone", "photo_url"}
      [] kind = "event"     -> {"description", "end_date", "link"}
      [] kind = "admission" -> {"application_deadline", "brochure_url", "apply_url", "notes"}
      [] kind = "pyq"       -> {}

\* The fields declared with a list default (research_areas: List[str] = []).
ListFields(kind) == IF kind = "faculty" THEN {"research_areas"} ELSE {}

SchemaFields(kind) == RequiredFields(kind) \cup OptionalFields(kind) \cup ListFields(kind)

\* Optional[HttpUrl] fields, and the required HttpUrl field of Pyq.
OptionalUrlFields(kind) ==
    CASE kind = "faculty"   -> {"photo_url"}
      [] kind = "event"     -> {"link"}
      [] kind = "admission" -> {"brochure_url", "apply_url"}
      [] OTHER              -> {}

\* HttpUrl accepts the http and https schemes only.
ValidUrl(u) == u.scheme \in {"http", "https"}

\* Field(..., ge=, le=) constraints.
BoundsOk(kind, m) ==
    CASE kind = "program" -> /\ m["duration_years"] >= DurationYearsMin
                             /\ m["duration_years"] <= DurationYearsMax
                             /\ m["semesters"] >= SemestersMin
                             /\ m["semesters"] <= SemestersMax
      [] kind = "pyq"     -> /\ m["semester"] >= PyqSemesterMin
                             /\ m["semester"] <= PyqSemesterMax
                             /\ ValidUrl(m["file_url"])
      [] OTHER            -> TRUE

UrlsOk(kind, m) ==
    \A k \in OptionalUrlFields(kind) \cap DOMAIN m :
        IsNone(m[k]) \/ ValidUrl(Val(m[k]))

\* Whether Schema(**m) constructs (pydantic raises ValidationError otherwise).
ValidMapping(kind, m) ==
    /\ RequiredFields(kind) \subseteq DOMAIN m
    /\ BoundsOk(kind, m)
    /\ UrlsOk(kind, m)

\* The model object Schema(**m): the declared fields only (pydantic ignores
\* unknown keys), absent optional fields take their defaults.
SchemaObject(kind, m) ==
    [k \in SchemaFields(kind) |->
        IF k \in DOMAIN m THEN m[k]
        ELSE IF k \in ListFields(kind) THEN <<>> ELSE None]

----------------------------------------------------------------------------
(* Demo data of seed_demo_data (src/main.py lines 33-52)                    *)

CS101 == <<"C","S","1","0","1">>

ProgrammingFundamentals == <<"P","r","o","g","r","a","m","m","i","n","g"," ","F","u","n","d","a","m","e","n","t","a","l","s">>

Https(rest) == [scheme |-> "https", rest |-> rest]

\* The keyword arguments of each schema constructor call, in call order.
\* Dates are day offsets from date.today().
DemoArgs(c) ==
    CASE c = "program" ->
           << [name |-> "B.Tech Computer Science", department |-> "CSE", level |-> "UG",
               duration_years |-> 4,
               description |-> Some("Core CS curriculum with electives in AI/ML"),
               semesters |-> 8],
              [name |-> "M.Tech Data Science", department |-> "CSE", level |-> "PG",
               duration_years |-> 2, description |-> Some("Advanced DS/ML program"),
               semesters |-> 4] >>
      [] c = "faculty" ->
           << [name |-> "Dr. A. Sharma", designation |-> "Professor", department |-> "CSE",
               email |-> Some("asharma@nijt.ac.in"),
               research_areas |-> <<"AI", "Computer Vision">>],
              [name |-> "Dr. R. Kaur", designation |-> "Assistant Professor",
               department |-> "ECE", email |-> Some("rkaur@nijt.ac.in"),
               research_areas |-> <<"VLSI", "Embedded Systems">>] >>
      [] c = "event" ->
           << [title |-> "AI Symposium 2025", description |-> Some("Talks & workshops on AI"),
               category |-> "seminar", start_date |-> 0, end_date |-> Some(0),
               location |-> "Auditorium"],
              [title |-> "TechFest", description |-> Some("Annual technical fest"),
               category |-> "cultural", start_date |-> 30, end_date |-> Some(32),
               location |-> "Campus Grounds"] >>
      [] c = "admission" ->
           << [year |-> 2025, program |-> "B.Tech", status |-> "Open",
               notes |-> Some("Apply via national counseling portal")] >>
      [] c = "pyq" ->
           << [program |-> "BTECH CSE", department |-> "CSE", course_code |-> CS101,
               course_title |-> ProgrammingFundamentals, semester |-> 1, year |-> 2023,
               exam_type |-> "End",
               file_url |-> Https("example.com/pyq/cs101_2023_end.pdf")] >>

\* Mutant: the second create_document call of a block is missing.
DemoRecordsFirstOnly(c) == [i \in 1..1 |-> SchemaObject(c, DemoArgs(c)[i])]

\* The schema objects the seed step hands to create_document.
DemoRecords(c) == [i \in 1..Len(DemoArgs(c)) |-> SchemaObject(c, DemoArgs(c)[i])]

----------------------------------------------------------------------------
(* Document store adapter: the `database` module imported at src/main.py:7 *)
(* (modelled from spec.md section 4.2 and section 6)                        *)

\* db is a handle exactly when both DATABASE_URL and DATABASE_NAME are set.
DbAvailable == envUrl /\ envName

\* `db is None`
DbIsNone == ~DbAvailable

\* `if db` / `... if db else ...`: a handle is truthy, None is falsy.
DbTruthy == DbAvailable

EmptyFilter == <<>>

\* Exact match on every key of the filter.
Matches(d, f) == \A k \in DOMAIN f : k \in DOMAIN d /\ d[k] = f[k]

\* get_documents(collection, filter): the matching documents in insertion
\* order; empty when the store is unavailable.
get_documents(st, c, f) ==
    IF DbAvailable THEN SelectSeq(st[c], LAMBDA d : Matches(d, f)) ELSE <<>>

\* db[collection].count_documents({})
count_documents(st, c) == Len(st[c])

\* create_document(collection, obj): the dumped object plus the storage
\* metadata the adapter attaches on write.
create_document(st, c, obj, id) ==
    [st EXCEPT ![c] = Append(st[c], obj @@ [_id |-> id, created_at |-> id, updated_at |-> id])]

\* db.list_collection_names(): the collections that hold documents.
list_collection_names(st) == SelectSeq(Collections, LAMBDA c : Len(st[c]) > 0)

----------------------------------------------------------------------------
(* Store contents that predate the process                                  *)

CS202 == <<"C","S","2","0","2">>

DataStructures == <<"D","a","t","a"," ","S","t","r","u","c","t","u","r","e","s">>

NoDocs == [c \in CollectionSet |-> <<>>]

\* Documents written before the process started: faculty of two departments,
\* one a prefix of the other, two question papers, one event, and a program
\* document that no longer satisfies the schema (semesters = 13).  The
\* documents carry differing storage metadata.
PriorDocs ==
    [NoDocs EXCEPT
       !["faculty"] =
          << [name |-> "Dr. P. Singh", designation |-> "Professor", department |-> "CS",
              email |-> None, phone |-> None, photo_url |-> None, research_areas |-> <<>>,
              _id |-> 101, created_at |-> 1, updated_at |-> 2],
             [name |-> "Dr. M. Gill", designation |-> "Lecturer", department |-> "CSE",
              email |-> None, phone |-> None, photo_url |-> None,
              research_areas |-> <<"Networks">>, _id |-> 102] >>,
       !["pyq"] =
          << [program |-> "BTECH CSE", department |-> "CSE", course_code |-> CS101,
              course_title |-> ProgrammingFundamentals, semester |-> 1, year |-> 2023,
              exam_type |-> "End", file_url |-> Https("example.com/pyq/cs101_2023_end.pdf"),
              _id |-> 103, created_at |-> 3, updated_at |-> 3],
             [program |-> "BTECH CSE", department |-> "CSE", course_code |-> CS202,
              course_title |-> DataStructures, semester |-> 12, year |-> 2022,
              exam_type |-> "Mid", file_url |-> Https("example.com/pyq/cs202_2022_mid.pdf"),
              _id |-> 104, created_at |-> 4] >>,
       !["program"] =
          << [name |-> "Diploma", department |-> "ME", level |-> "UG", duration_years |-> 3,
              description |-> None, semesters |-> 13, _id |-> 105, created_at |-> 5,
              updated_at |-> 5] >>,
       !["event"] =
          << [title |-> "Convocation", description |-> None, category |-> "other",
              start_date |-> 10, end_date |-> None, location |-> "Main Hall",
              link |-> None, _id |-> 106] >>]

PriorStores == {NoDocs, PriorDocs}

----------------------------------------------------------------------------
(* State                                                                    *)

NoRequest == [op |-> "none"]

NoResponse == [status |-> 0, body |-> <<>>]

Counts(st) == [c \in CollectionSet |-> Len(st[c])]

InitHist ==
    [firstEmpty |-> {}, startCounts |-> Counts(NoDocs), failed |-> FALSE,
     blockDone |-> {}, cleanCounts |-> None, cleanRun |-> 0]

Init ==
    /\ envUrl \in BOOLEAN
    /\ envName \in BOOLEAN
    /\ store \in (IF envUrl /\ envName THEN PriorStores ELSE {NoDocs})
    /\ nextId = 1
    /\ phase = "boot"
    /\ seedPc = [c |-> 1, k |-> 0]
    /\ seedRun = 0
    /\ hist = InitHist
    /\ req = NoRequest
    /\ resp = NoResponse
    /\ calls = <<>>
    /\ validated = <<>>

----------------------------------------------------------------------------
(* seed_demo_data (src/main.py lines 28-58), one step per store call        *)

\* Mutant: the emptiness test is missing.
NeedsSeedAlways(n) == n >= 0

\* `count_documents({}) == 0`
NeedsSeed(n) == n = 0

\* Mutant: the exception propagates out of the module import.
SeedExceptReraise == "crashed"

\* `except Exception: pass`: the seed step returns and the module goes on
\* to define the routes.
SeedExcept == "serving"

\* The position after collection i's block.
AfterBlock(i) ==
    IF i = Len(Collections) THEN [c |-> 1, k |-> 0] ELSE [c |-> i + 1, k |-> 0]

PhaseAfterBlock(i) == IF i = Len(Collections) THEN "serving" ELSE "seeding"

\* The history kept when a seed pass returns without a failed store call.
CleanFinish(h, st) ==
    IF IsNone(h.cleanCounts)
    THEN [h EXCEPT !.cleanCounts = Some(Counts(st)), !.cleanRun = seedRun]
    ELSE h

\* Module import reaches `seed_demo_data()`; `if db is None: return`.
SeedBegin ==
    /\ phase = "boot"
    /\ seedRun' = seedRun + 1
    /\ seedPc' = [c |-> 1, k |-> 0]
    /\ IF DbIsNone
       THEN /\ phase' = "serving"
            /\ hist' = hist
       ELSE /\ phase' = "seeding"
            /\ hist' = [hist EXCEPT
                          !.firstEmpty = IF seedRun = 0
                                         THEN {c \in CollectionSet : Len(store[c]) = 0}
                                         ELSE @,
                          !.startCounts = Counts(store),
                          !.failed = FALSE]
    /\ UNCHANGED <<envUrl, envName, store, nextId, req, resp, calls, validated>>

\* `if db[c].count_documents({}) == 0:` returns a count.
SeedCount ==
    /\ phase = "seeding"
    /\ seedPc.k = 0
    /\ LET c == Collections[seedPc.c] IN
       IF NeedsSeed(count_documents(store, c))
       THEN /\ seedPc' = [seedPc EXCEPT !.k = 1]
            /\ phase' = "seeding"
            /\ hist' = hist
       ELSE /\ seedPc' = AfterBlock(seedPc.c)
            /\ phase' = PhaseAfterBlock(seedPc.c)
            /\ hist' = IF seedPc.c = Len(Collections) THEN CleanFinish(hist, store) ELSE hist
    /\ UNCHANGED <<envUrl, envName, store, nextId, seedRun, req, resp, calls, validated>>

\* `create_document(c, Schema(...))` stores the k-th demo record.
SeedInsert ==
    /\ phase = "seeding"
    /\ seedPc.k >= 1
    /\ LET c == Collections[seedPc.c]
           last == seedPc.k = Len(DemoRecords(c))
           st == create_document(store, c, DemoRecords(c)[seedPc.k], nextId)
           h == IF last THEN [hist EXCEPT !.blockDone = @ \cup {c}] ELSE hist
       IN /\ store' = st
          /\ nextId' = nextId + 1
          /\ seedPc' = IF last THEN AfterBlock(seedPc.c) ELSE [seedPc EXCEPT !.k = @ + 1]
          /\ phase' = IF last THEN PhaseAfterBlock(seedPc.c) ELSE "seeding"
          /\ hist' = IF last /\ seedPc.c = Len(Collections) THEN CleanFinish(h, st) ELSE h
    /\ UNCHANGED <<envUrl, envName, seedRun, req, resp, calls, validated>>

\* The store call at the current position raises; control passes to the
\* except clause.
SeedStoreFails ==
    /\ phase = "seeding"
    /\ phase' = SeedExcept
    /\ seedPc' = [c |-> 1, k |-> 0]
    /\ hist' = [hist EXCEPT !.failed = TRUE]
    /\ UNCHANGED <<envUrl, envName, store, nextId, seedRun, req, resp, calls, validated>>

\* The process is started again: the module is imported and seeds again.
Restart ==
    /\ phase = "serving"
    /\ req = NoRequest
    /\ seedRun <= MaxRestarts
    /\ phase' = "boot"
    /\ req' = NoRequest
    /\ resp' = NoResponse
    /\ calls' = <<>>
    /\ validated' = <<>>
    /\ UNCHANGED <<envUrl, envName, store, nextId, seedPc, seedRun, hist>>

----------------------------------------------------------------------------
(* Query endpoint layer (src/main.py lines 64-171)                          *)

\* The application serves one request at a time in this model: a handler
\* runs when no response is outstanding, and the response is then sent.
Idle == phase = "serving" /\ req = NoRequest

ResponseSent ==
    /\ phase = "serving"
    /\ req # NoRequest
    /\ req' = NoRequest
    /\ resp' = NoResponse
    /\ calls' = <<>>
    /\ validated' = <<>>
    /\ UNCHANGED <<envUrl, envName, store, nextId, phase, seedPc, seedRun, hist>>

\* Mutant: only _id is removed.
StripIdOnly(d) == [k \in DOMAIN d \ {"_id"} |-> d[k]]

\* `{k: v for k, v in d.items() if k not in ["_id", "created_at", "updated_at"]}`
Strip(d) == [k \in DOMAIN d \ StorageFields |-> d[k]]

\* The index of the first document whose stripped form the schema rejects,
\* or 0: the list comprehension raises there.
FirstInvalid(kind, docs) ==
    IF \E i \in 1..Len(docs) : ~ValidMapping(kind, Strip(docs[i]))
    THEN CHOOSE i \in 1..Len(docs) :
            /\ ~ValidMapping(kind, Strip(docs[i]))
            /\ \A j \in 1..(i - 1) : ValidMapping(kind, Strip(docs[j]))
    ELSE 0

\* The mappings handed to the schema constructor, in order, up to and
\* including the first one it rejects.
ValidatedInputs(kind, docs) ==
    LET n == IF FirstInvalid(kind, docs) = 0 THEN Len(docs) ELSE FirstInvalid(kind, docs)
    IN [i \in 1..n |-> Strip(docs[i])]

\* `return [Schema(**{...}) for d in docs]`: status 200 with the list, or an
\* unhandled ValidationError (status 500).
ListResponse(kind, docs) ==
    IF FirstInvalid(kind, docs) = 0
    THEN [status |-> 200, body |-> [i \in 1..Len(docs) |-> SchemaObject(kind, Strip(docs[i]))]]
    ELSE [status |-> 500, body |-> <<>>]

\* An exception raised by get_documents is not caught by a list handler.
StoreError == [status |-> 500, body |-> <<>>]

FindCall(c, f) == [op |-> "find", coll |-> c, filter |-> f]

\* Mutant: the department is never put into the filter.
FacultyFilterNone(department) == EmptyFilter

\* `{"department": department} if (department and db) else {}`
FacultyFilter(department) ==
    IF TruthyStr(department) /\ DbTruthy THEN [department |-> Val(department)] ELSE EmptyFilter

\* `{"category": category} if (category and db) else {}`
EventFilter(category) ==
    IF TruthyStr(category) /\ DbTruthy THEN [category |-> Val(category)] ELSE EmptyFilter

\* `{"status": status} if (status and db) else {}`
AdmissionFilter(status) ==
    IF TruthyStr(status) /\ DbTruthy THEN [status |-> Val(status)] ELSE EmptyFilter

\* Whether a store call made by a handler may raise: only if it is made.
Outcomes(callMade) == IF callMade THEN BOOLEAN ELSE {FALSE}

\* `docs = get_documents(c, filter_q) if db else []` followed by the
\* comprehension; findFails says that get_documents raises.
ListHandler(c, f, r, findFails) ==
    /\ LET docs == IF DbTruthy THEN get_documents(store, c, f) ELSE <<>> IN
         /\ req' = r
         /\ calls' = IF DbTruthy THEN <<FindCall(c, f)>> ELSE <<>>
         /\ resp' = IF findFails THEN StoreError ELSE ListResponse(c, docs)
         /\ validated' = IF findFails THEN <<>> ELSE ValidatedInputs(c, docs)
    /\ UNCHANGED <<envUrl, envName, store, nextId, phase, seedPc, seedRun, hist>>

Departments == {None, Some(""), Some("CS"), Some("CSE"), Some("ECE")}

Categories == {None, Some(""), Some("seminar"), Some("other")}

Statuses == {None, Some(""), Some("Open"), Some("Closed")}

list_programs ==
    /\ Idle
    /\ \E findFails \in Outcomes(DbTruthy) :
        ListHandler("program", EmptyFilter, [op |-> "programs"], findFails)

list_faculty ==
    /\ Idle
    /\ \E department \in Departments, findFails \in Outcomes(DbTruthy) :
        ListHandler("faculty", FacultyFilter(department),
                    [op |-> "faculty", department |-> department], findFails)

list_events ==
    /\ Idle
    /\ \E category \in Categories, findFails \in Outcomes(DbTruthy) :
        ListHandler("event", EventFilter(category),
                    [op |-> "events", category |-> category], findFails)

list_admissions ==
    /\ Idle
    /\ \E status \in Statuses, findFails \in Outcomes(DbTruthy) :
        ListHandler("admission", AdmissionFilter(status),
                    [op |-> "admissions", status |-> status], findFails)

\* list_pyqs ---------------------------------------------------------------

QuerySemesterMin == 1

QuerySemesterMax == 12

\* Mutant: the lower bound is 0 and the upper bound 13.
SemesterAcceptedWide(semester) ==
    IsNone(semester) \/ (Val(semester) >= QuerySemesterMin - 1 /\ Val(semester) <= QuerySemesterMax + 1)

\* `semester: Optional[int] = Query(None, ge=1, le=12)`
SemesterAccepted(semester) ==
    IsNone(semester) \/ (Val(semester) >= QuerySemesterMin /\ Val(semester) <= QuerySemesterMax)

\* The request is rejected by parameter validation before the handler runs.
Rejected == [status |-> 422, body |-> <<>>]

\* Mutant: the early return is missing.
PyqUnavailableNever == FALSE

\* `if db is None: return []`
PyqUnavailable == DbIsNone

\* Mutant: year is tested for truthiness (`if year:`), like the strings.
PyqFilterKeysYearTruthy(r) ==
    {k \in {"program", "department", "exam_type"} : TruthyStr(r[k])}
    \cup (IF TruthyChars(r["course_code"]) THEN {"course_code"} ELSE {})
    \cup (IF ~IsNone(r["semester"]) THEN {"semester"} ELSE {})
    \cup (IF ~IsNone(r["year"]) /\ Val(r["year"]) # 0 THEN {"year"} ELSE {})

\* The keys the `if` chain of lines 151-162 puts into filter_q.
PyqFilterKeys(r) ==
    {k \in {"program", "department", "exam_type"} : TruthyStr(r[k])}
    \cup (IF TruthyChars(r["course_code"]) THEN {"course_code"} ELSE {})
    \cup {k \in {"semester", "year"} : ~IsNone(r[k])}

PyqFilter(r) == [k \in PyqFilterKeys(r) |-> Val(r[k])]

\* `d.get(key, "")`
GetChars(d, key) == IF key \in DOMAIN d THEN d[key] ELSE <<>>

\* `d.get("course_code", "").lower() + " " + d.get("course_title", "").lower()`
SearchText(d) == Lower(GetChars(d, "course_code")) \o <<" ">> \o Lower(GetChars(d, "course_title"))

\* Mutant: the search term is not lower-cased.
SearchMatchCaseSensitive(search, d) == Substring(search, SearchText(d))

\* `s = search.lower()`, `s in (...)`
SearchMatch(search, d) == Substring(Lower(search), SearchText(d))

\* `if search: docs = [d for d in docs if ...]`
ApplySearch(search, docs) ==
    IF TruthyChars(search) THEN SelectSeq(docs, LAMBDA d : SearchMatch(Val(search), d)) ELSE docs

PyqPrograms == {None, Some(""), Some("BTECH CSE")}

PyqDepartments == {None, Some("CSE")}

PyqSemesters == {None, Some(0), Some(1), Some(12), Some(13)}

PyqCourseCodes == {None, Some(<<>>), Some(CS101)}

PyqYears == {None, Some(0), Some(2023)}

PyqExamTypes == {None, Some("Mid")}

PyqSearches == {None, Some(<<>>), Some(<<"c","S","1","0","1">>), Some(<<"1","p">>)}

PyqRequests ==
    [op : {"pyqs"}, program : PyqPrograms, department : PyqDepartments,
     semester : PyqSemesters, course_code : PyqCourseCodes, year : PyqYears,
     exam_type : PyqExamTypes, search : PyqSearches]

list_pyqs ==
    /\ Idle
    /\ \E r \in PyqRequests :
      \E findFails \in Outcomes(SemesterAccepted(r.semester) /\ ~PyqUnavailable) :
        /\ req' = r
        /\ IF ~SemesterAccepted(r.semester)
           THEN /\ resp' = Rejected
                /\ calls' = <<>>
                /\ validated' = <<>>
           ELSE IF PyqUnavailable
           THEN /\ resp' = [status |-> 200, body |-> <<>>]
                /\ calls' = <<>>
                /\ validated' = <<>>
           ELSE LET docs == ApplySearch(r.search, get_documents(store, "pyq", PyqFilter(r)))
                IN /\ calls' = <<FindCall("pyq", PyqFilter(r))>>
                   /\ resp' = IF findFails THEN StoreError ELSE ListResponse("pyq", docs)
                   /\ validated' = IF findFails THEN <<>> ELSE ValidatedInputs("pyq", docs)
        /\ UNCHANGED <<envUrl, envName, store, nextId, phase, seedPc, seedRun, hist>>

\* read_root and test_database ----------------------------------------------

read_root ==
    /\ Idle
    /\ req' = [op |-> "root"]
    /\ resp' = [status |-> 200, body |-> [message |-> "NIJT Backend is running"]]
    /\ calls' = <<>>
    /\ validated' = <<>>
    /\ UNCHANGED <<envUrl, envName, store, nextId, phase, seedPc, seedRun, hist>>

ErrorTextMax == 50

CollectionsShown == 10

\* s[:n]
Take(s, n) == SubSeq(s, 1, IF Len(s) < n THEN Len(s) ELSE n)

\* str(e) of an exception raised by the store client.
ErrorMessages ==
    {<<>>, <<"t","i","m","e","d"," ","o","u","t">>,
     <<"c","o","n","n","e","c","t","i","o","n"," ","r","e","f","u","s","e","d"," ","w","h","i","l","e"," ","s","e","l","e","c","t","i","n","g"," ","a"," ","s","e","r","v","e","r",":"," ","l","o","c","a","l","h","o","s","t",":","2","7","0","1","7">>}

\* The dictionary test_database builds.  `database` is a pair: the fixed
\* text and the interpolated, truncated exception text.
TestDatabaseBody(listFails, msg) ==
    LET url == IF envUrl THEN "Set" ELSE "Not Set"
        name == IF envName THEN "Set" ELSE "Not Set"
    IN IF DbIsNone
       THEN [backend |-> "Running",
            database |-> <<"Available but not initialized", <<>>>>,
            database_url |-> url, database_name |-> name,
            connection_status |-> "Not Connected", collections |-> <<>>]
       ELSE IF listFails
       THEN [backend |-> "Running",
            database |-> <<"Connected but Error: ", Take(msg, ErrorTextMax)>>,
            database_url |-> url, database_name |-> name,
            connection_status |-> "Connected", collections |-> <<>>]
       ELSE [backend |-> "Running",
            database |-> <<"Connected & Working", <<>>>>,
            database_url |-> url, database_name |-> name,
            connection_status |-> "Connected",
            collections |-> Take(list_collection_names(store), CollectionsShown)]

\* Mutant: list_collection_names is called outside any try block.
TestDatabaseUncaught(listFails, msg) ==
    IF listFails
    THEN [status |-> 500, body |-> TestDatabaseBody(FALSE, <<>>)]
    ELSE [status |-> 200, body |-> TestDatabaseBody(listFails, msg)]

\* Both try blocks catch Exception, so the handler always returns the
\* dictionary.
TestDatabaseResponse(listFails, msg) ==
    [status |-> 200, body |-> TestDatabaseBody(listFails, msg)]

test_database ==
    /\ Idle
    /\ \E listFails \in Outcomes(~DbIsNone) :
      \E msg \in IF listFails THEN ErrorMessages ELSE {<<>>} :
        /\ req' = [op |-> "test", listFails |-> listFails]
        /\ resp' = TestDatabaseResponse(listFails, msg)
        /\ calls' = IF DbIsNone THEN <<>> ELSE <<[op |-> "list_collection_names"]>>
        /\ validated' = <<>>
        /\ UNCHANGED <<envUrl, envName, store, nextId, phase, seedPc, seedRun, hist>>

----------------------------------------------------------------------------

Next ==
    \/ SeedBegin \/ SeedCount \/ SeedInsert \/ SeedStoreFails \/ Restart
    \/ read_root \/ test_database \/ ResponseSent
    \/ list_programs \/ list_faculty \/ list_events \/ list_admissions \/ list_pyqs

Spec == Init /\ [][Next]_vars

----------------------------------------------------------------------------
(* Properties                                                               *)

ListOps == {"programs", "faculty", "events", "admissions", "pyqs"}

\* The public form of the documents stored in collection c, metadata removed
\* by name.
StoredPublic(c) ==
    [i \in 1..Len(store[c]) |->
        [k \in DOMAIN store[c][i] \ {"_id", "created_at", "updated_at"} |-> store[c][i][k]]]

\* C1: with the store handle absent, every list operation called with
\* accepted parameters answers 200 with an empty list and issues no store
\* call.
C1_UnavailableListsEmpty ==
    (DbIsNone /\ req.op \in ListOps
       /\ (req.op = "pyqs" => (IsNone(req.semester) \/ Val(req.semester) \in 1..12)))
    => (resp.status = 200 /\ resp.body = <<>> /\ calls = <<>>)

C1_Witness ==
    /\ DbIsNone
    /\ req.op = "pyqs"
    /\ req.semester = Some(12)
    /\ req.program = Some("BTECH CSE")
    /\ req.year = Some(2023)
    /\ ~IsNone(req.search) /\ Len(Val(req.search)) > 0
    /\ resp.status = 200

\* C2: once a seed pass has run to its end with no failed store call, no
\* later seed pass changes any collection's document count; and a seed pass
\* never adds to a collection that held a document when the pass began.
C2_SeedIdempotent ==
    /\ ~IsNone(hist.cleanCounts) => Counts(store) = Val(hist.cleanCounts)
    /\ (DbAvailable /\ phase \in {"seeding", "serving"})
         => \A c \in CollectionSet :
               hist.startCounts[c] > 0 => Len(store[c]) = hist.startCounts[c]

C2_Witness ==
    /\ hist.cleanRun = 1
    /\ seedRun = 2
    /\ phase = "serving"
    /\ ~hist.failed
    /\ hist.firstEmpty = CollectionSet

C4_SeedNeverRaises ==
    /\ phase \in {"boot", "seeding", "serving"}
    /\ hist.failed => phase # "seeding"
    /\ (hist.failed /\ phase = "serving" /\ req = NoRequest) => ENABLED read_root

C4_Witness ==
    /\ hist.failed
    /\ seedRun = 1
    /\ Len(store["program"]) = 1
    /\ req.op = "programs"
    /\ resp.status = 200

\* C5: a semester outside 1..12 is answered 422 with no store call; a
\* semester inside 1..12 is accepted and, with the store available, is an
\* exact-match entry of the filter of the one find call.
C5_SemesterRange ==
    (req.op = "pyqs" /\ ~IsNone(req.semester))
    => IF Val(req.semester) \in 1..12
       THEN /\ resp.status # 422
            /\ DbAvailable => /\ Len(calls) = 1
                              /\ "semester" \in DOMAIN calls[1].filter
                              /\ calls[1].filter["semester"] = Val(req.semester)
       ELSE resp.status = 422 /\ calls = <<>> /\ resp.body = <<>>

C5_Witness ==
    /\ DbAvailable
    /\ req.op = "pyqs"
    /\ req.semester = Some(13)
    /\ resp.status = 422
    /\ Len(store["pyq"]) > 0

\* The faculty documents whose department is exactly d, as the schema
\* returns them.
FacultyOfDepartment(d) ==
    LET all == StoredPublic("faculty")
        hit == SelectSeq(all, LAMBDA x : x["department"] = d)
    IN [i \in 1..Len(hit) |-> SchemaObject("faculty", hit[i])]

\* C6 (amended): for a non-empty department string d, a successful
\* list_faculty call returns exactly the stored faculty whose department
\* equals d; the empty string is treated as no filter and returns every
\* stored faculty record.
C6_FacultyExactMatch ==
    (DbAvailable /\ req.op = "faculty" /\ resp.status = 200 /\ ~IsNone(req.department))
    => IF Val(req.department) # ""
       THEN /\ \A i \in 1..Len(resp.body) : resp.body[i]["department"] = Val(req.department)
            /\ resp.body = FacultyOfDepartment(Val(req.department))
       ELSE Len(resp.body) = Len(store["faculty"])

C6_Witness ==
    /\ req.op = "faculty"
    /\ req.department = Some("CS")
    /\ resp.status = 200
    /\ Len(resp.body) = 1
    /\ \E i \in 1..Len(store["faculty"]) : store["faculty"][i]["department"] = "CSE"

\* C6 as claimed: for every department string d, every returned record has
\* department d.
C6_Original ==
    (DbAvailable /\ req.op = "faculty" /\ resp.status = 200 /\ ~IsNone(req.department))
    => \A i \in 1..Len(resp.body) : resp.body[i]["department"] = Val(req.department)

\* The documents the store returns for the request with its search term
\* taken away.
PyqStoreFiltered ==
    LET f == [k \in {x \in {"program", "department", "exam_type"} :
                        ~IsNone(req[x]) /\ Val(req[x]) # ""}
                    \cup {x \in {"course_code"} : ~IsNone(req[x]) /\ Val(req[x]) # <<>>}
                    \cup {x \in {"semester", "year"} : ~IsNone(req[x])}
              |-> Val(req[k])]
    IN SelectSeq(store["pyq"],
                 LAMBDA d : \A k \in DOMAIN f : k \in DOMAIN d /\ d[k] = f[k])

PyqPublic(docs) ==
    [i \in 1..Len(docs) |->
        SchemaObject("pyq", [k \in DOMAIN docs[i] \ {"_id", "created_at", "updated_at"}
                                |-> docs[i][k]])]

\* C7 (amended): with a non-empty search term, a successful list_pyqs call
\* returns exactly the store-filtered documents for which the lower-cased
\* term is a substring of lower-cased course_code, one space, lower-cased
\* course_title; the term is never a key of the store filter.
C7_SearchAfterRetrieval ==
    (DbAvailable /\ req.op = "pyqs" /\ resp.status = 200 /\ ~IsNone(req.search))
    => /\ "search" \notin DOMAIN calls[1].filter
       /\ Val(req.search) # <<>>
            => resp.body =
                 PyqPublic(SelectSeq(PyqStoreFiltered,
                    LAMBDA d : Substring(Lower(Val(req.search)),
                                         Lower(d["course_code"]) \o <<" ">>
                                            \o Lower(d["course_title"]))))

C7_Witness ==
    /\ DbAvailable
    /\ req.op = "pyqs"
    /\ req.search = Some(<<"c","S","1","0","1">>)
    /\ resp.status = 200
    /\ Len(PyqStoreFiltered) = 2
    /\ Len(resp.body) = 1
    /\ resp.body[1]["course_code"] = CS101

\* C7 as claimed: the term is matched against course_code directly followed
\* by course_title.
C7_Original ==
    (DbAvailable /\ req.op = "pyqs" /\ resp.status = 200 /\ ~IsNone(req.search)
       /\ Val(req.search) # <<>>)
    => resp.body =
         PyqPublic(SelectSeq(PyqStoreFiltered,
            LAMBDA d : Substring(Lower(Val(req.search)),
                                 Lower(d["course_code"] \o d["course_title"]))))

\* C8: no returned record has a storage-only field, and each mapping handed
\* to the schema is a stored document of the queried collection with exactly
\* those three fields removed.
C8_StorageFieldsStripped ==
    (req.op \in ListOps /\ resp.status = 200)
    => /\ \A i \in 1..Len(resp.body) :
             DOMAIN resp.body[i] \cap {"_id", "created_at", "updated_at"} = {}
       /\ Len(validated) = Len(resp.body)
       /\ \A i \in 1..Len(validated) :
             \E j \in 1..Len(store[calls[1].coll]) :
                LET d == store[calls[1].coll][j] IN
                  /\ DOMAIN validated[i] = DOMAIN d \ {"_id", "created_at", "updated_at"}
                  /\ \A k \in DOMAIN validated[i] : validated[i][k] = d[k]

C8_Witness ==
    /\ req.op = "faculty"
    /\ resp.status = 200
    /\ Len(resp.body) = 2
    /\ "created_at" \in DOMAIN store["faculty"][1]
    /\ "created_at" \notin DOMAIN store["faculty"][2]
    /\ "_id" \in DOMAIN store["faculty"][2]

\* C9: test_database answers 200 in every store state; a failure of
\* list_collection_names is reported in the `database` field; with the
\* handle absent the answer says Not Connected and lists no collections.
C9_TestNeverRaises ==
    req.op = "test"
    => /\ resp.status = 200
       /\ DbIsNone => /\ resp.body.connection_status = "Not Connected"
                      /\ resp.body.collections = <<>>
       /\ req.listFails => /\ resp.body.database[1] = "Connected but Error: "
                           /\ Len(resp.body.database[2]) <= 50
                           /\ resp.body.connection_status = "Connected"
       /\ (DbAvailable /\ ~req.listFails)
            => /\ resp.body.database[1] = "Connected & Working"
               /\ \A c \in CollectionSet :
                     (Len(store[c]) > 0)
                        <=> (\E i \in 1..Len(resp.body.collections) : resp.body.collections[i] = c)

C9_Witness ==
    /\ req.op = "test"
    /\ req.listFails
    /\ resp.status = 200
    /\ Len(resp.body.database[2]) = 50

\* C10 (amended): the filter of the find call has an exact-match entry for
\* each of program, department, course_code, exam_type given as a non-empty
\* string and for each of semester, year given as an integer (0 included),
\* and no other entry.
C10_FilterKeys ==
    (DbAvailable /\ req.op = "pyqs" /\ resp.status # 422)
    => /\ Len(calls) = 1
       /\ calls[1].op = "find" /\ calls[1].coll = "pyq"
       /\ DOMAIN calls[1].filter =
            {k \in {"program", "department", "exam_type"} : ~IsNone(req[k]) /\ Val(req[k]) # ""}
            \cup {k \in {"course_code"} : ~IsNone(req[k]) /\ Val(req[k]) # <<>>}
            \cup {k \in {"semester", "year"} : ~IsNone(req[k])}
       /\ \A k \in DOMAIN calls[1].filter : calls[1].filter[k] = Val(req[k])

C10_Witness ==
    /\ DbAvailable
    /\ req.op = "pyqs"
    /\ req.program = Some("")
    /\ req.year = Some(0)
    /\ req.semester = Some(1)
    /\ req.exam_type = Some("Mid")
    /\ resp.status = 200
    /\ DOMAIN calls[1].filter = {"year", "semester", "exam_type"}

\* C10 as claimed: every parameter given as a non-null value, the empty
\* string included, has an entry.
C10_Original ==
    (DbAvailable /\ req.op = "pyqs" /\ resp.status # 422)
    => /\ Len(calls) = 1
       /\ DOMAIN calls[1].filter =
            {k \in {"program", "department", "course_code", "exam_type", "semester", "year"} :
                ~IsNone(req[k])}

====
